---- MODULE Spec2Model ----
(***************************************************************************)
(* Model of the coffee-shop drinks API (backend/src/api.py): a catalog of  *)
(* drinks behind five HTTP routes, a permission check in front of four of  *)
(* them, and the error handlers that render every failure.                 *)
(*                                                                         *)
(* One action per request.  Each handler is an operator from the catalog   *)
(* and the request to the new catalog and the response.  An exception      *)
(* raised inside a handler is a value [raised |-> TRUE, ...], so that the  *)
(* handler's try/except clauses decide what the client sees.               *)
(***************************************************************************)
EXTENDS Integers, Sequences, FiniteSets, TLC

VARIABLES catalog, req, resp

vars == <<catalog, req, resp>>

----------------------------------------------------------------------------
(* Bounds and the small sets the inputs are drawn from *)

MaxId == 2

Ids == 1..MaxId

\* Python's None, the default of body.get(key, None) and JSON null
None == "None"

Titles == {"Water", "Sparkling Water"}

TitleValues == Titles \cup {None}

Water == [name |-> "Water", color |-> "blue", parts |-> 1]

Bubbles == [name |-> "Bubbles", color |-> "white", parts |-> 2]

\* A decoded JSON value under the key 'recipe': null, or a list of ingredients
JsonNull == [null |-> TRUE, items |-> <<>>]

JsonList(s) == [null |-> FALSE, items |-> s]

Recipes == {JsonList(<<Water>>), JsonList(<<Water, Bubbles>>)}

RecipeValues == Recipes \cup {JsonNull}

Permissions == {"get:drinks-detail", "post:drinks", "patch:drinks", "delete:drinks"}

PermSets == {{}, {"get:drinks-detail"}, Permissions}

\* What the Authorization header can carry
Tokens ==
    {[kind |-> "missing", perms |-> {}],
     [kind |-> "invalid", perms |-> {}],
     [kind |-> "noclaim", perms |-> {}]}
    \cup {[kind |-> "valid", perms |-> P] : P \in PermSets}

\* What request.get_json() can find: no JSON body, text that is not JSON,
\* a JSON array, or a JSON object with optional 'title' and 'recipe' keys
NoBody == [kind |-> "none", hasTitle |-> FALSE, title |-> None,
           hasRecipe |-> FALSE, recipe |-> JsonNull]

\* a JSON object; an absent key carries the default body.get(key, None) gives it
ObjectBodies ==
    {[kind |-> "object", hasTitle |-> ht, title |-> t, hasRecipe |-> hr, recipe |-> r] :
        ht \in BOOLEAN, t \in TitleValues, hr \in BOOLEAN, r \in RecipeValues}

Bodies ==
    {[NoBody EXCEPT !.kind = k] : k \in {"none", "malformed", "array"}}
    \cup {b \in ObjectBodies : /\ (~b.hasTitle => b.title = None)
                               /\ (~b.hasRecipe => b.recipe = JsonNull)}

\* the bodies tried on a request that is turned away before its body is read
UnreadBodies ==
    {NoBody,
     [kind |-> "object", hasTitle |-> TRUE, title |-> "Sparkling Water",
      hasRecipe |-> TRUE, recipe |-> JsonList(<<Water, Bubbles>>)]}

NoToken == [kind |-> "missing", perms |-> {}]

----------------------------------------------------------------------------
(* json.dumps / json.loads on recipes *)

DumpsIngredient(i) ==
    "{\"name\": \"" \o i.name \o "\", \"color\": \"" \o i.color
        \o "\", \"parts\": " \o ToString(i.parts) \o "}"

RECURSIVE DumpsItems(_)
DumpsItems(s) ==
    IF s = <<>> THEN ""
    ELSE IF Len(s) = 1 THEN DumpsIngredient(Head(s))
    ELSE DumpsIngredient(Head(s)) \o ", " \o DumpsItems(Tail(s))

json_dumps(v) == IF v.null THEN "null" ELSE "[" \o DumpsItems(v.items) \o "]"

\* the text of every value a recipe can have
Serialised == [v \in RecipeValues |-> json_dumps(v)]

\* json.loads: the value whose text it is
json_loads(text) == CHOOSE v \in RecipeValues : Serialised[v] = text

----------------------------------------------------------------------------
(* The Drink model and the persistence layer *)

\* Drink.long(): the row with its recipe deserialised
long(id, d) == [id |-> id, title |-> d.title, recipe |-> json_loads(d.recipe).items]

ShortItems(s) == [k \in 1..Len(s) |-> [color |-> s[k].color, parts |-> s[k].parts]]

\* Drink.short(): as long(), every ingredient without its name
short(id, d) == [id |-> id, title |-> d.title, recipe |-> ShortItems(json_loads(d.recipe).items)]

\* The rows the table holds: a title, and a recipe that is a serialised recipe
ValidRow(d) == d.title # None /\ ~json_loads(d.recipe).null

RECURSIVE OrderById(_)
OrderById(S) ==
    IF S = {} THEN <<>>
    ELSE LET m == CHOOSE x \in S : \A y \in S : x <= y
         IN <<m>> \o OrderById(S \ {m})

\* Drink.query.order_by(Drink.id).all()
QueryAll(cat) == OrderById(DOMAIN cat)

\* drink.insert(): the row is stored under the id the table assigns, or nothing is
Insert(cat, newId, d, dbOk) ==
    IF dbOk /\ ValidRow(d)
    THEN [ok |-> TRUE, catalog |-> [i \in DOMAIN cat \cup {newId} |->
                                        IF i = newId THEN d ELSE cat[i]]]
    ELSE [ok |-> FALSE, catalog |-> cat]

\* drink.update(): the changed row replaces the stored one, or nothing changes
Update(cat, id, d, dbOk) ==
    IF dbOk /\ ValidRow(d)
    THEN [ok |-> TRUE, catalog |-> [cat EXCEPT ![id] = d]]
    ELSE [ok |-> FALSE, catalog |-> cat]

\* drink.delete(): the row is gone, or nothing changes
Delete(cat, id, dbOk) ==
    IF dbOk
    THEN [ok |-> TRUE, catalog |-> [i \in DOMAIN cat \ {id} |-> cat[i]]]
    ELSE [ok |-> FALSE, catalog |-> cat]

\* db_drop_and_create_all(): an empty table
EmptyCatalog == [i \in {} |-> [title |-> None, recipe |-> "null"]]

----------------------------------------------------------------------------
(* The permission check in front of a protected handler *)

AuthOk == [ok |-> TRUE, status_code |-> 200, description |-> ""]

AuthError(code, description) == [ok |-> FALSE, status_code |-> code, description |-> description]

requires_auth(permission, token) ==
    IF token.kind = "missing"
    THEN AuthError(401, "Authorization header is expected.")
    ELSE IF token.kind = "invalid"
    THEN AuthError(401, "Unable to verify the token.")
    ELSE IF token.kind = "noclaim"
    THEN AuthError(403, "Permissions not included in token.")
    ELSE IF permission \notin token.perms
    THEN AuthError(403, "Permission not found.")
    ELSE AuthOk

----------------------------------------------------------------------------
(* Error handlers *)

\* the authorization failure forced through the generic 401 answer
authentification_error_401(e) ==
    [status |-> 401,
     body |-> [success |-> FALSE, error |-> 401, message |-> e.description]]

authentification_error(e) ==
    [status |-> e.status_code,
     body |-> [success |-> FALSE, error |-> e.status_code, message |-> e.description]]

bad_request_error ==
    [status |-> 400, body |-> [success |-> FALSE, error |-> 400, message |-> "Bad Request"]]

unauthorized_error(description) ==
    [status |-> 401,
     body |-> [success |-> FALSE, error |-> 401, message |-> "Unauthorized",
               description |-> description]]

forbidden_error ==
    [status |-> 403, body |-> [success |-> FALSE, error |-> 403, message |-> "Forbidden"]]

not_found_error ==
    [status |-> 404, body |-> [success |-> FALSE, error |-> 404, message |-> "resource not found"]]

\* the 405 handler with the body of the 404 handler it was copied from
method_not_allowed_error_404 ==
    [status |-> 405, body |-> [success |-> FALSE, error |-> 404, message |-> "Method Not Allowed"]]

method_not_allowed_error ==
    [status |-> 405, body |-> [success |-> FALSE, error |-> 405, message |-> "Method Not Allowed"]]

not_processable_error ==
    [status |-> 422, body |-> [success |-> FALSE, error |-> 422, message |-> "Not Processable"]]

server_error ==
    [status |-> 500, body |-> [success |-> FALSE, error |-> 500, message |-> "Server Error"]]

\* Flask hands an HTTP exception to the handler registered for its code
errorhandler(code) ==
    CASE code = 400 -> bad_request_error
      [] code = 401 -> unauthorized_error("Unauthorized")
      [] code = 403 -> forbidden_error
      [] code = 404 -> not_found_error
      [] code = 405 -> method_not_allowed_error
      [] code = 422 -> not_processable_error
      [] OTHER      -> server_error

----------------------------------------------------------------------------
(* Exceptions inside a handler *)

\* a handler body that returned a response
Return(cat, response) == [raised |-> FALSE, code |-> 200, catalog |-> cat, resp |-> response]

\* abort(code): raises an HTTPException, which is an Exception
abort(cat, code) == [raised |-> TRUE, code |-> code, catalog |-> cat, resp |-> server_error]

\* any other exception (AttributeError on None.get, ...): Flask answers 500
\* when no except clause catches it
Raise(cat) == [raised |-> TRUE, code |-> 500, catalog |-> cat, resp |-> server_error]

\* try: <inner>  except Exception / BaseException: abort(code)
TryExcept(inner, code) ==
    IF inner.raised THEN abort(inner.catalog, code) ELSE inner

\* what the client gets from a handler's outcome
Respond(outcome) ==
    [catalog |-> outcome.catalog,
     resp |-> IF outcome.raised THEN errorhandler(outcome.code) ELSE outcome.resp]

Ok200(body) == [status |-> 200, body |-> body]

\* request.get_json() followed by body.get(...): not JSON raises 400, a missing
\* body is None and a JSON array is a list, neither of which has .get
BodyIsObject(b) == b.kind = "object"

----------------------------------------------------------------------------
(* Handlers *)

\* getDrinks with d.long() where the code has d.short()
getDrinks_long(cat) ==
    LET drinks == QueryAll(cat)
        short_drinks == [k \in 1..Len(drinks) |-> long(drinks[k], cat[drinks[k]])]
        inner == IF Len(short_drinks) = 0
                 THEN abort(cat, 404)
                 ELSE Return(cat, Ok200([success |-> TRUE, drinks |-> short_drinks]))
    IN Respond(TryExcept(inner, 500))

\* GET /drinks
getDrinks(cat) ==
    LET drinks == QueryAll(cat)
        short_drinks == [k \in 1..Len(drinks) |-> short(drinks[k], cat[drinks[k]])]
        inner == IF Len(short_drinks) = 0
                 THEN abort(cat, 404)
                 ELSE Return(cat, Ok200([success |-> TRUE, drinks |-> short_drinks]))
    IN Respond(TryExcept(inner, 500))

\* GET /drinks-detail, behind requires_auth('get:drinks-detail')
getDrinksDetail(cat, r) ==
    LET auth == requires_auth("get:drinks-detail", r.token)
        drinks == QueryAll(cat)
        long_drinks == [k \in 1..Len(drinks) |-> long(drinks[k], cat[drinks[k]])]
        inner == IF Len(long_drinks) = 0
                 THEN abort(cat, 404)
                 ELSE Return(cat, Ok200([success |-> TRUE, drinks |-> long_drinks]))
    IN IF ~auth.ok
       THEN [catalog |-> cat, resp |-> authentification_error(auth)]
       ELSE Respond(TryExcept(inner, 500))

\* post_drinks answering with every drink of the table, not the new one alone
post_drinks_all(cat, r, newId) ==
    LET auth == requires_auth("post:drinks", r.token)
        body == r.body
        req_title == IF body.hasTitle THEN body.title ELSE None
        req_recipe == json_dumps(IF body.hasRecipe THEN body.recipe ELSE JsonNull)
        drink == [title |-> req_title, recipe |-> req_recipe]
        ins == Insert(cat, newId, drink, r.dbOk)
        all == QueryAll(ins.catalog)
        inner == IF ~BodyIsObject(body)
                 THEN Raise(cat)
                 ELSE IF ~ins.ok
                 THEN Raise(ins.catalog)
                 ELSE Return(ins.catalog,
                             Ok200([success |-> TRUE,
                                    drinks |-> [k \in 1..Len(all) |->
                                                   long(all[k], ins.catalog[all[k]])]]))
    IN IF ~auth.ok
       THEN [catalog |-> cat, resp |-> authentification_error(auth)]
       ELSE IF body.kind = "malformed"
       THEN Respond(abort(cat, 400))
       ELSE Respond(TryExcept(inner, 422))

\* POST /drinks, behind requires_auth('post:drinks')
post_drinks(cat, r, newId) ==
    LET auth == requires_auth("post:drinks", r.token)
        body == r.body
        req_title == IF body.hasTitle THEN body.title ELSE None
        req_recipe == json_dumps(IF body.hasRecipe THEN body.recipe ELSE JsonNull)
        drink == [title |-> req_title, recipe |-> req_recipe]
        ins == Insert(cat, newId, drink, r.dbOk)
        inner == IF ~BodyIsObject(body)
                 THEN Raise(cat)
                 ELSE IF ~ins.ok
                 THEN Raise(ins.catalog)
                 ELSE Return(ins.catalog,
                             Ok200([success |-> TRUE, drinks |-> <<long(newId, drink)>>]))
    IN IF ~auth.ok
       THEN [catalog |-> cat, resp |-> authentification_error(auth)]
       ELSE IF body.kind = "malformed"
       THEN Respond(abort(cat, 400))
       ELSE Respond(TryExcept(inner, 422))

\* edit_drink assigning both fields whether or not their keys are in the body
edit_drink_replace(cat, r) ==
    LET auth == requires_auth("patch:drinks", r.token)
        drink_id == r.id
        found == drink_id \in DOMAIN cat
        body == r.body
        req_title == IF body.hasTitle THEN body.title ELSE "Water"
        req_recipe == json_dumps(IF body.hasRecipe THEN body.recipe ELSE JsonList(<<Water>>))
        drink2 == [title |-> req_title, recipe |-> req_recipe]
        upd == Update(cat, drink_id, drink2, r.dbOk)
        inner == IF ~found
                 THEN abort(cat, 404)
                 ELSE IF ~upd.ok
                 THEN Raise(upd.catalog)
                 ELSE Return(upd.catalog,
                             Ok200([success |-> TRUE, drinks |-> <<long(drink_id, drink2)>>]))
    IN IF ~auth.ok
       THEN [catalog |-> cat, resp |-> authentification_error(auth)]
       ELSE IF body.kind = "malformed"
       THEN Respond(abort(cat, 400))
       ELSE IF ~BodyIsObject(body)
       THEN Respond(Raise(cat))
       ELSE Respond(TryExcept(inner, 422))

\* edit_drink calling drink.update() after each assignment: the title is
\* committed before the recipe is assigned
edit_drink_two_commits(cat, r) ==
    LET auth == requires_auth("patch:drinks", r.token)
        drink_id == r.id
        found == drink_id \in DOMAIN cat
        body == r.body
        req_title == IF body.hasTitle THEN body.title ELSE None
        req_recipe == json_dumps(IF body.hasRecipe THEN body.recipe ELSE JsonNull)
        drink0 == cat[drink_id]
        drink1 == IF body.hasTitle THEN [drink0 EXCEPT !.title = req_title] ELSE drink0
        upd1 == Update(cat, drink_id, drink1, r.dbOk)
        drink2 == IF body.hasRecipe THEN [drink1 EXCEPT !.recipe = req_recipe] ELSE drink1
        upd2 == Update(upd1.catalog, drink_id, drink2, r.dbOk)
        inner == IF ~found
                 THEN abort(cat, 404)
                 ELSE IF ~upd1.ok
                 THEN Raise(upd1.catalog)
                 ELSE IF ~upd2.ok
                 THEN Raise(upd2.catalog)
                 ELSE Return(upd2.catalog,
                             Ok200([success |-> TRUE, drinks |-> <<long(drink_id, drink2)>>]))
    IN IF ~auth.ok
       THEN [catalog |-> cat, resp |-> authentification_error(auth)]
       ELSE IF body.kind = "malformed"
       THEN Respond(abort(cat, 400))
       ELSE IF ~BodyIsObject(body)
       THEN Respond(Raise(cat))
       ELSE Respond(TryExcept(inner, 422))

\* PATCH /drinks/<id>, behind requires_auth('patch:drinks')
edit_drink(cat, r) ==
    LET auth == requires_auth("patch:drinks", r.token)
        drink_id == r.id
        found == drink_id \in DOMAIN cat
        body == r.body
        req_title == IF body.hasTitle THEN body.title ELSE None
        req_recipe == json_dumps(IF body.hasRecipe THEN body.recipe ELSE JsonNull)
        drink0 == cat[drink_id]
        drink1 == IF body.hasTitle THEN [drink0 EXCEPT !.title = req_title] ELSE drink0
        drink2 == IF body.hasRecipe THEN [drink1 EXCEPT !.recipe = req_recipe] ELSE drink1
        upd == Update(cat, drink_id, drink2, r.dbOk)
        inner == IF ~found
                 THEN abort(cat, 404)
                 ELSE IF ~upd.ok
                 THEN Raise(upd.catalog)
                 ELSE Return(upd.catalog,
                             Ok200([success |-> TRUE, drinks |-> <<long(drink_id, drink2)>>]))
    IN IF ~auth.ok
       THEN [catalog |-> cat, resp |-> authentification_error(auth)]
       ELSE IF body.kind = "malformed"
       THEN Respond(abort(cat, 400))
       ELSE IF ~BodyIsObject(body)
       THEN Respond(Raise(cat))
       ELSE Respond(TryExcept(inner, 422))

\* deleteDrinks deleting the first row of the table, not the row of drink_id
deleteDrinks_first(cat, r) ==
    LET auth == requires_auth("delete:drinks", r.token)
        drink_id == r.id
        found == drink_id \in DOMAIN cat
        del == Delete(cat, Head(QueryAll(cat)), r.dbOk)
        inner == IF ~found
                 THEN abort(cat, 404)
                 ELSE IF ~del.ok
                 THEN Raise(del.catalog)
                 ELSE Return(del.catalog, Ok200([success |-> TRUE, delete |-> drink_id]))
    IN IF ~auth.ok
       THEN [catalog |-> cat, resp |-> authentification_error(auth)]
       ELSE Respond(TryExcept(inner, 422))

\* DELETE /drinks/<id>, behind requires_auth('delete:drinks')
deleteDrinks(cat, r) ==
    LET auth == requires_auth("delete:drinks", r.token)
        drink_id == r.id
        found == drink_id \in DOMAIN cat
        del == Delete(cat, drink_id, r.dbOk)
        inner == IF ~found
                 THEN abort(cat, 404)
                 ELSE IF ~del.ok
                 THEN Raise(del.catalog)
                 ELSE Return(del.catalog, Ok200([success |-> TRUE, delete |-> drink_id]))
    IN IF ~auth.ok
       THEN [catalog |-> cat, resp |-> authentification_error(auth)]
       ELSE Respond(TryExcept(inner, 422))

----------------------------------------------------------------------------
(* Requests *)

Request(method, id, token, body, dbOk) ==
    [method |-> method, id |-> id, token |-> token, body |-> body, dbOk |-> dbOk]

RouteGetDrinks ==
    LET r == Request("GET /drinks", 0, NoToken, NoBody, TRUE)
        result == getDrinks(catalog)
    IN /\ req' = r
       /\ catalog' = result.catalog
       /\ resp' = result.resp

RouteGetDrinksDetail ==
    \E token \in Tokens :
        LET r == Request("GET /drinks-detail", 0, token, NoBody, TRUE)
            result == getDrinksDetail(catalog, r)
        IN /\ req' = r
           /\ catalog' = result.catalog
           /\ resp' = result.resp

\* the inputs of a protected request: the body matters once the permission
\* check has passed, the outcome of the write once the handler reaches it
BodiesFor(permission, token) ==
    IF requires_auth(permission, token).ok THEN Bodies ELSE UnreadBodies

OutcomesFor(permission, token, body) ==
    IF requires_auth(permission, token).ok /\ BodyIsObject(body) THEN BOOLEAN ELSE {TRUE}

RoutePostDrinks ==
    \E token \in Tokens, newId \in Ids \ DOMAIN catalog :
        \E body \in BodiesFor("post:drinks", token) :
            \E dbOk \in OutcomesFor("post:drinks", token, body) :
                LET r == Request("POST /drinks", 0, token, body, dbOk)
                    result == post_drinks(catalog, r, newId)
                IN /\ req' = r
                   /\ catalog' = result.catalog
                   /\ resp' = result.resp

RoutePatchDrink ==
    \E id \in Ids, token \in Tokens :
        \E body \in BodiesFor("patch:drinks", token) :
            \E dbOk \in OutcomesFor("patch:drinks", token, body) :
                LET r == Request("PATCH /drinks/<id>", id, token, body, dbOk)
                    result == edit_drink(catalog, r)
                IN /\ req' = r
                   /\ catalog' = result.catalog
                   /\ resp' = result.resp

RouteDeleteDrink ==
    \E id \in Ids, token \in Tokens :
        \E dbOk \in OutcomesFor("delete:drinks", token, [NoBody EXCEPT !.kind = "object"]) :
            LET r == Request("DELETE /drinks/<id>", id, token, NoBody, dbOk)
                result == deleteDrinks(catalog, r)
            IN /\ req' = r
               /\ catalog' = result.catalog
               /\ resp' = result.resp

\* a path no route matches, or a method its route does not accept
RouteUnmatched ==
    \E m \in {"GET /unknown", "PUT /drinks"} :
        /\ req' = Request(m, 0, NoToken, NoBody, TRUE)
        /\ catalog' = catalog
        /\ resp' = errorhandler(IF m = "PUT /drinks" THEN 405 ELSE 404)

\* create_app() has run and no request has been served
NoResponse == [status |-> 0, body |-> [success |-> FALSE]]

Init ==
    /\ catalog = EmptyCatalog
    /\ req = Request("create_app", 0, NoToken, NoBody, TRUE)
    /\ resp = NoResponse

Next ==
    \/ RouteGetDrinks
    \/ RouteGetDrinksDetail
    \/ RoutePostDrinks
    \/ RoutePatchDrink
    \/ RouteDeleteDrink
    \/ RouteUnmatched

Spec == Init /\ [][Next]_vars

TypeOK ==
    /\ DOMAIN catalog \subseteq Ids
    /\ \A i \in DOMAIN catalog : ValidRow(catalog[i])
    /\ resp.status \in {0, 200, 400, 401, 403, 404, 405, 422, 500}

----------------------------------------------------------------------------
(* Vocabulary of the properties *)

GET_DRINKS == "GET /drinks"

GET_DETAIL == "GET /drinks-detail"

POST == "POST /drinks"

PATCH == "PATCH /drinks/<id>"

DELETE == "DELETE /drinks/<id>"

RequiredPermission(method) ==
    CASE method = GET_DETAIL -> "get:drinks-detail"
      [] method = POST       -> "post:drinks"
      [] method = PATCH      -> "patch:drinks"
      [] method = DELETE     -> "delete:drinks"
      [] OTHER               -> "none"

Protected(r) == r.method \in {GET_DETAIL, POST, PATCH, DELETE}

Authorized(r) == Protected(r) /\ requires_auth(RequiredPermission(r.method), r.token).ok

\* the ids a response lists
ListedIds(response) ==
    IF "drinks" \in DOMAIN response.body
    THEN {response.body.drinks[k].id : k \in 1..Len(response.body.drinks)}
    ELSE {}

Others(cat, id) == [i \in DOMAIN cat \ {id} |-> cat[i]]

----------------------------------------------------------------------------
(* C1: with an empty catalog, GET /drinks and an authorized GET /drinks-detail
   answer 404.  The code answers 500: abort(404) is raised inside the try
   whose except Exception clause aborts with 500. *)
C1_EmptyCatalogIs404 ==
    (/\ catalog = EmptyCatalog
     /\ (req.method = GET_DRINKS \/ (req.method = GET_DETAIL /\ Authorized(req))))
    => resp.status = 404

(* C2: an authorized PATCH or DELETE of an id that is not in the catalog
   answers 404, never 422.  The code answers 422: abort(404) is raised inside
   the try whose except Exception clause aborts with 422. *)
C2_UnknownIdIs404 ==
    [][(/\ req'.method \in {PATCH, DELETE}
        /\ Authorized(req')
        /\ (req'.method = PATCH => BodyIsObject(req'.body))
        /\ req'.dbOk
        /\ req'.id \notin DOMAIN catalog)
       => resp'.status = 404]_vars

(* C3: a successful authorized PATCH overwrites exactly the fields whose
   keys are in the body: with only 'title' the stored recipe text stays what
   it was, with only 'recipe' the title stays, the answer carries the long
   form of the updated drink, and every other drink is unchanged. *)
C3_PatchIsPartial ==
    [][(req'.method = PATCH /\ Authorized(req') /\ resp'.status = 200)
       => LET id == req'.id
              body == req'.body
          IN /\ id \in DOMAIN catalog
             /\ DOMAIN catalog' = DOMAIN catalog
             /\ catalog'[id].title = (IF body.hasTitle THEN body.title ELSE catalog[id].title)
             /\ catalog'[id].recipe = (IF body.hasRecipe THEN json_dumps(body.recipe)
                                       ELSE catalog[id].recipe)
             /\ Others(catalog', id) = Others(catalog, id)
             /\ resp'.body.drinks = <<long(id, catalog'[id])>>]_vars

\* a title-only PATCH has succeeded on one of two drinks whose recipe is not the
\* one a replacing update would have written
C3_Witness ==
    /\ req.method = PATCH /\ Authorized(req) /\ resp.status = 200
    /\ req.body.hasTitle /\ ~req.body.hasRecipe
    /\ Cardinality(DOMAIN catalog) >= 2
    /\ catalog[req.id].title = "Sparkling Water"
    /\ catalog[req.id].recipe = json_dumps(JsonList(<<Water, Bubbles>>))

(* C4: an authorized DELETE of an id in the catalog, when the table accepts
   the delete, answers 200 with {success: true, delete: id}; a GET /drinks
   issued next lists every other drink and not that id, a GET lists exactly
   the ids of the catalog, and only a create adds an id to the catalog. *)
C4_DeleteThenGet ==
    [][/\ (/\ req'.method = DELETE /\ Authorized(req')
           /\ req'.id \in DOMAIN catalog /\ req'.dbOk)
          => /\ resp' = Ok200([success |-> TRUE, delete |-> req'.id])
             /\ ListedIds(getDrinks(catalog').resp) = DOMAIN catalog \ {req'.id}
             /\ Others(catalog', req'.id) = Others(catalog, req'.id)
             /\ req'.id \notin DOMAIN catalog'
       /\ (req'.method = GET_DRINKS => ListedIds(resp') = DOMAIN catalog')
       /\ (req'.method # POST => DOMAIN catalog' \subseteq DOMAIN catalog)]_vars

\* a drink has been deleted and another one is left
C4_Witness ==
    /\ req.method = DELETE /\ Authorized(req) /\ resp.status = 200
    /\ resp.body.delete = req.id
    /\ req.id \notin DOMAIN catalog
    /\ \E i \in DOMAIN catalog : i > req.id

(* C5: an authorized POST whose body carries a title and a recipe, when the
   table accepts the insert, answers 200 with exactly one long-form entry: its
   title is the submitted title and its id is in no drink of the catalog
   before the request; the catalog gains that one row and keeps the others,
   and a listing never shows an id twice. *)
C5_PostCreatesOne ==
    [][/\ (/\ req'.method = POST /\ Authorized(req')
           /\ BodyIsObject(req'.body)
           /\ req'.body.hasTitle /\ req'.body.title \in Titles
           /\ req'.body.hasRecipe /\ req'.body.recipe \in Recipes
           /\ req'.dbOk)
          => /\ resp'.status = 200
             /\ resp'.body.success = TRUE
             /\ Len(resp'.body.drinks) = 1
             /\ LET new == resp'.body.drinks[1]
                IN /\ new.title = req'.body.title
                   /\ new.recipe = req'.body.recipe.items
                   /\ new.id \notin DOMAIN catalog
                   /\ DOMAIN catalog' = DOMAIN catalog \cup {new.id}
                   /\ new = long(new.id, catalog'[new.id])
                   /\ Others(catalog', new.id) = catalog
       /\ (req'.method \in {GET_DRINKS, GET_DETAIL} /\ resp'.status = 200
           => \A j, k \in 1..Len(resp'.body.drinks) :
                 j # k => resp'.body.drinks[j].id # resp'.body.drinks[k].id)]_vars

\* a drink has been created next to another one
C5_Witness ==
    /\ req.method = POST /\ Authorized(req) /\ resp.status = 200
    /\ Len(resp.body.drinks) = 1
    /\ resp.body.drinks[1].title = "Water"
    /\ resp.body.drinks[1].id \in DOMAIN catalog
    /\ Cardinality(DOMAIN catalog) >= 2

(* C6: on a catalog of at least one drink GET /drinks answers 200 with one
   short-form entry per stored drink, in ascending id order, no recipe item
   carrying a 'name' field, and the catalog is left as it was. *)
C6_GetDrinksShort ==
    [][(req'.method = GET_DRINKS /\ DOMAIN catalog # {})
       => /\ resp'.status = 200
          /\ resp'.body.success = TRUE
          /\ catalog' = catalog
          /\ LET drinks == resp'.body.drinks
             IN /\ Len(drinks) = Cardinality(DOMAIN catalog)
                /\ ListedIds(resp') = DOMAIN catalog
                /\ \A j, k \in 1..Len(drinks) : j < k => drinks[j].id < drinks[k].id
                /\ \A k \in 1..Len(drinks) :
                      /\ DOMAIN drinks[k] = {"id", "title", "recipe"}
                      /\ drinks[k].title = catalog[drinks[k].id].title
                      /\ Len(drinks[k].recipe) = Len(json_loads(catalog[drinks[k].id].recipe).items)
                      /\ \A n \in 1..Len(drinks[k].recipe) :
                            LET item == drinks[k].recipe[n]
                                stored == json_loads(catalog[drinks[k].id].recipe).items[n]
                            IN /\ DOMAIN item = {"color", "parts"}
                               /\ item.color = stored.color
                               /\ item.parts = stored.parts]_vars

\* two drinks have been listed, the first with an ingredient
C6_Witness ==
    /\ req.method = GET_DRINKS /\ resp.status = 200
    /\ Len(resp.body.drinks) >= 2
    /\ Len(resp.body.drinks[1].recipe) >= 1

(* C7: a request to a protected endpoint whose token is valid but lacks the
   endpoint's permission is answered 403, not 401, with the authorization
   failure's own status code in the body, and the catalog is unchanged. *)
C7_MissingPermissionIs403 ==
    [][(/\ Protected(req')
        /\ req'.token.kind = "valid"
        /\ RequiredPermission(req'.method) \notin req'.token.perms)
       => /\ resp'.status = 403
          /\ resp'.body.success = FALSE
          /\ resp'.body.error = 403
          /\ catalog' = catalog]_vars

\* a token with another endpoint's permission has been refused the delete of a
\* stored drink
C7_Witness ==
    /\ req.method = DELETE
    /\ req.token = [kind |-> "valid", perms |-> {"get:drinks-detail"}]
    /\ req.id \in DOMAIN catalog
    /\ resp.status = 403

(* C8: an authorized POST or PATCH whose JSON body is missing or is not an
   object answers 422.  PATCH answers 500: it reads the body before its try. *)
C8_BodyShapeIs422 ==
    (/\ req.method \in {POST, PATCH}
     /\ Authorized(req)
     /\ req.body.kind \in {"none", "array"})
    => resp.status = 422

(* C9: every response is a JSON object with a boolean 'success' that is true
   exactly when the status is 200, and every error response has 'success'
   false and an 'error' field equal to the status of the response. *)
C9_ErrorEnvelope ==
    req.method # "create_app"
    => /\ "success" \in DOMAIN resp.body
       /\ resp.body.success \in BOOLEAN
       /\ (resp.body.success <=> resp.status = 200)
       /\ (resp.status # 200
           => /\ "error" \in DOMAIN resp.body
              /\ "message" \in DOMAIN resp.body
              /\ resp.body.error = resp.status)

\* a request with a method its route does not accept has been answered
C9_Witness ==
    /\ req.method = "PUT /drinks"
    /\ resp.status = 405
    /\ resp.body.success = FALSE

(* C10: a request answered with a status other than 200 leaves the catalog
   as it was, and a create, update or delete answered 200 has committed in
   full: the new row with both submitted fields, the row with every field of
   the body, the row gone. *)
C10_AllOrNothing ==
    [][/\ (resp'.status # 200 => catalog' = catalog)
       /\ (req'.method = POST /\ resp'.status = 200
           => \E i \in DOMAIN catalog' \ DOMAIN catalog :
                 /\ catalog'[i] = [title |-> req'.body.title,
                                   recipe |-> json_dumps(req'.body.recipe)]
                 /\ Others(catalog', i) = catalog)
       /\ (req'.method = PATCH /\ resp'.status = 200
           => /\ (req'.body.hasTitle => catalog'[req'.id].title = req'.body.title)
              /\ (req'.body.hasRecipe
                  => catalog'[req'.id].recipe = json_dumps(req'.body.recipe)))
       /\ (req'.method = DELETE /\ resp'.status = 200
           => catalog' = Others(catalog, req'.id))]_vars

\* an update that assigned a new title and then failed on its recipe has been
\* answered 422 and the stored title is not the new one
C10_Witness ==
    /\ req.method = PATCH /\ Authorized(req)
    /\ req.id \in DOMAIN catalog
    /\ req.body.hasTitle /\ req.body.title \in Titles
    /\ req.body.hasRecipe /\ req.body.recipe = JsonNull
    /\ req.dbOk
    /\ resp.status = 422
    /\ catalog[req.id].title # req.body.title

====
